---- MODULE Spec2Model ----
(***************************************************************************)
(* A state-machine model of homura/utils/trainer.py: TrainerBase (the      *)
(* train / test / run lifecycle, the five extras registries and the hook   *)
(* dispatch) and SupervisedTrainer.iteration.                              *)
(*                                                                         *)
(* The trainer is single threaded.  Its call stack is the variable         *)
(* `stack`; every train() / test() / run() call is one frame whose `pc`    *)
(* walks through the statements of the method (with _loop and _iteration   *)
(* inlined in the train/test frame).  Collaborators (callbacks, model,     *)
(* loss, optimizer, scheduler) are the environment: a callback may return, *)
(* raise, or call back into the trainer it received under TRAINER.         *)
(***************************************************************************)
EXTENDS Integers, Sequences, FiniteSets, TLC

(* ------------------------------ bounds --------------------------------- *)

\* longest data source (number of batches) the environment hands in
MaxBatches == 2

\* largest `epochs` argument of run()
MaxEpochs == 2

\* environment events per behaviour: API calls on the trainer (by the
\* caller or by a callback) and exceptions raised by collaborators; a run()
\* call counts for two, standing for the train() and test() calls it makes
MaxEvents == 3

\* calls of train()/test() made by callbacks while another call is running
MaxReenter == 1

(* ---------------------------- vocabulary ------------------------------- *)

TRAIN == "train"

TEST == "test"

\* phase names handed to test(data_loader, name=TEST)
PhaseNames == {TEST, "val"}

Hooks == {"start_iteration", "end_iteration", "start_epoch", "end_epoch", "end_all"}

\* names under which extras are registered: a fresh one and one that
\* collides with a key the trainer itself puts in every context
Names == {"tag", "MODEL"}

Values == {"X", "Y"}

Excs == {"KeyboardInterrupt", "Exception"}

VARIABLES
    step,            \* self._step
    epoch,           \* self._epoch
    is_train,        \* self._is_train
    verb,            \* self._verb
    scheduler,       \* self._scheduler: "none" or "single"
    extras,          \* the five registries self._start_iteration ... self._end_all
    model_training,  \* model.training, set by model.train() / model.eval()
    params,          \* the model's parameters: number of optimizer steps applied
    sched_steps,     \* number of scheduler.step() calls
    stack,           \* call stack, innermost frame last
    exc,             \* the exception being raised, "none" when none
    log,             \* what the collaborators saw since the caller's last API call
    regLog,          \* every register_*(name, data) call made so far
    lastEntered,     \* "train" / "test": the call entered most recently
    result,          \* how the caller's last train/test/run call ended
    events,          \* environment events used
    reentries,       \* calls made by callbacks so far
    ctor             \* the constructor call: its arguments, its position, the
                     \* attributes set on the object so far, how it ended

vars == <<step, epoch, is_train, verb, scheduler, extras, model_training, params,
          sched_steps, stack, exc, log, regLog, lastEntered, result, events,
          reentries, ctor>>

trainerVars == <<step, epoch, is_train, model_training, params, sched_steps>>

\* what no method touches once __init__ is over
configVars == <<verb, scheduler, ctor>>

(* ------------------------------ helpers -------------------------------- *)

NoExtras == [h \in Hooks |-> <<>>]

\* (mutant) the entries the trainer supplies are kept
DictUpdate_basewins(base, d) ==
    [k \in (DOMAIN base) \cup (DOMAIN d) |-> IF k \in DOMAIN base THEN base[k] ELSE d[k]]

\* dict.update: the entries of `d` override those of `base`
DictUpdate(base, d) ==
    [k \in (DOMAIN base) \cup (DOMAIN d) |-> IF k \in DOMAIN d THEN d[k] ELSE base[k]]

\* (mutant) d.setdefault(name, data): an entry already there is kept
DictSet_setdefault(d, name, data) ==
    [k \in (DOMAIN d) \cup {name} |-> IF k \in DOMAIN d THEN d[k] ELSE data]

\* d[name] = data
DictSet(d, name, data) ==
    [k \in (DOMAIN d) \cup {name} |-> IF k = name THEN data ELSE d[k]]

Top == stack[Len(stack)]

Running == stack # <<>> /\ exc = "none"

Idle == stack = <<>> /\ exc = "none"

SetTop(f) == [stack EXCEPT ![Len(stack)] = f]

\* a log entry; a call is named by the place of its "enter" entry in the log
Entry(kind, call, ctx) == [kind |-> kind, call |-> call, ctx |-> ctx]

\* a data source of n batches; batch k carries (input, target) = (k, 0)
DataLoader(n) == [n |-> n, wrapped |-> FALSE]

\* reporter.wrapper.TQDMWrapper: decorates the source with a progress bar
TQDMWrapper(dl) == [dl EXCEPT !.wrapped = TRUE]

\* TQDMWrapper.__len__: the length of the source it wraps
TQDMLen(dl) == dl.n

\* TQDMWrapper.__iter__: the batches of the source it wraps, in its order
TQDMBatch(dl, k) == k

\* len(data_loader), line 175
LenOf(dl) == IF dl.wrapped THEN TQDMLen(dl) ELSE dl.n

\* the k-th batch the for statement of line 165 gets
BatchOf(dl, k) == IF dl.wrapped THEN TQDMBatch(dl, k) ELSE k

\* self.model(input) for the model's current parameters
Forward(w, input) == input + w

\* self.loss_f(output, target), target = 0: squared error
LossF(output) == output * output

Frame(fn, id, name, dl) ==
    [fn |-> fn, id |-> id, pc |-> "start_epoch", name |-> name, dl |-> dl,
     i |-> 0, data |-> 0, loss |-> 0, output |-> 0, cb |-> "none",
     epochs |-> 0, ep |-> 0, train_data |-> dl, test_data |-> dl,
     pending |-> "none", interrupted |-> FALSE,
     step0 |-> step, epoch0 |-> epoch, sched0 |-> sched_steps,
     nested |-> FALSE, nestedTrain |-> FALSE]

(* ------------------------------ contexts ------------------------------- *)

\* _iteration: the context of the "start of iteration" dispatch
Ctx_start_iteration(f) ==
    DictUpdate([MODEL |-> "model", STEP |-> step, NAME |-> f.name, TRAINER |-> "self"],
               extras["start_iteration"])

\* (mutant) the step counter moves before the dispatch
Ctx_end_iteration_poststep(f) ==
    DictUpdate([OUTPUT |-> f.output, DATA |-> f.data, MODEL |-> "model",
                LOSS |-> f.loss, STEP |-> IF is_train THEN step + 1 ELSE step,
                NAME |-> f.name, TRAINER |-> "self"],
               extras["end_iteration"])

\* (mutant) the loss is computed again for the dispatch, after the
\* optimizer step
Ctx_end_iteration_recomputed(f) ==
    DictUpdate([OUTPUT |-> f.output, DATA |-> f.data, MODEL |-> "model",
                LOSS |-> LossF(Forward(params, f.data)), STEP |-> step,
                NAME |-> f.name, TRAINER |-> "self"],
               extras["end_iteration"])

\* _iteration: the context of the "end of iteration" dispatch; LOSS is
\* loss.data.item(), the number held by the tensor iteration() returned
Ctx_end_iteration(f) ==
    DictUpdate([OUTPUT |-> f.output, DATA |-> f.data, MODEL |-> "model",
                LOSS |-> f.loss, STEP |-> step, NAME |-> f.name, TRAINER |-> "self"],
               extras["end_iteration"])

\* _loop: the context of the "start of epoch" dispatch
Ctx_start_epoch(f) ==
    DictUpdate([MODEL |-> "model", NAME |-> f.name, TRAINER |-> "self"],
               extras["start_epoch"])

\* (mutant) epochs are reported counting from one
Ctx_end_epoch_onebased(f) ==
    DictUpdate([MODEL |-> "model", OPTIMIZER |-> "optimizer", EPOCH |-> epoch + 1,
                NAME |-> f.name, ITER_PER_EPOCH |-> LenOf(f.dl), TRAINER |-> "self"],
               extras["end_epoch"])

\* (mutant) the global step counter is reported as the iteration count
Ctx_end_epoch_step(f) ==
    DictUpdate([MODEL |-> "model", OPTIMIZER |-> "optimizer", EPOCH |-> epoch,
                NAME |-> f.name, ITER_PER_EPOCH |-> step, TRAINER |-> "self"],
               extras["end_epoch"])

\* _loop: the context of the "end of epoch" dispatch
Ctx_end_epoch(f) ==
    DictUpdate([MODEL |-> "model", OPTIMIZER |-> "optimizer", EPOCH |-> epoch,
                NAME |-> f.name, ITER_PER_EPOCH |-> LenOf(f.dl), TRAINER |-> "self"],
               extras["end_epoch"])

\* _exit: the context of the "end of run" dispatch
Ctx_end_all ==
    DictUpdate([MODEL |-> "model", OPTIMIZER |-> "optimizer", TRAINER |-> "self"],
               extras["end_all"])

(* --------------------------- initial state ----------------------------- *)

\* the constructor call is over and its arguments are gone
Constructed == [pc |-> "returned"]

\* the trainer as __init__ leaves it (lines 86-109), for either setting of
\* verb, with or without a scheduler, and a model in either mode
Init ==
    /\ step = 0
    /\ epoch = 0
    /\ is_train = TRUE
    /\ verb \in BOOLEAN
    /\ scheduler \in {"none", "single"}
    /\ extras = NoExtras
    /\ model_training \in BOOLEAN
    /\ params = 0
    /\ sched_steps = 0
    /\ stack = <<>>
    /\ exc = "none"
    /\ log = <<>>
    /\ regLog = <<>>
    /\ lastEntered = "none"
    /\ result = [op |-> "none", outcome |-> "none"]
    /\ events = 0
    /\ reentries = 0
    /\ ctor = Constructed

(* --------------------------- registration ------------------------------ *)

\* the part common to the five register_* methods: only the caller, between
\* two calls, registers; `hook` names the registry the method writes
Register(hook, name, data) ==
    /\ Idle
    /\ events < MaxEvents
    /\ events' = events + 1
    /\ extras' = [extras EXCEPT ![hook] = DictSet(@, name, data)]
    /\ regLog' = Append(regLog, [hook |-> hook, name |-> name, data |-> data])
    /\ log' = <<>>
    /\ UNCHANGED <<trainerVars, configVars, stack, exc, lastEntered, result,
                   reentries>>

register_start_iteration ==
    \E name \in Names, data \in Values : Register("start_iteration", name, data)

register_end_iteration ==
    \E name \in Names, data \in Values : Register("end_iteration", name, data)

register_start_epoch ==
    \E name \in Names, data \in Values : Register("start_epoch", name, data)

register_end_epoch ==
    \E name \in Names, data \in Values : Register("end_epoch", name, data)

register_end_all ==
    \E name \in Names, data \in Values : Register("end_all", name, data)

(* ------------------------- entering train / test ----------------------- *)

\* every frame below a call a callback makes has seen a callback call in
MarkNested(stk, fn) ==
    [k \in 1..Len(stk) |->
        [stk[k] EXCEPT !.cb = "none", !.nested = TRUE,
                       !.nestedTrain = (@ \/ fn = "train")]]

\* train(), lines 181-182: the flag and the model's mode, then _loop starts
EnterTrain(stk, lg, dl, by) ==
    /\ is_train' = TRUE
    /\ model_training' = TRUE
    /\ lastEntered' = "train"
    /\ stack' = Append(stk, Frame("train", Len(lg) + 1, TRAIN, dl))
    /\ log' = Append(lg, Entry("enter", Len(lg) + 1,
                               [fn |-> "train", name |-> TRAIN, n |-> dl.n,
                                depth |-> Len(stk), by |-> by]))

\* (mutant) test() forgets model.eval()
EnterTest_noeval(stk, lg, dl, name, by) ==
    /\ is_train' = FALSE
    /\ model_training' = model_training
    /\ lastEntered' = "test"
    /\ stack' = Append(stk, Frame("test", Len(lg) + 1, name, dl))
    /\ log' = Append(lg, Entry("enter", Len(lg) + 1,
                               [fn |-> "test", name |-> name, n |-> dl.n,
                                depth |-> Len(stk), by |-> by]))

\* test(), lines 190-191
EnterTest(stk, lg, dl, name, by) ==
    /\ is_train' = FALSE
    /\ model_training' = FALSE
    /\ lastEntered' = "test"
    /\ stack' = Append(stk, Frame("test", Len(lg) + 1, name, dl))
    /\ log' = Append(lg, Entry("enter", Len(lg) + 1,
                               [fn |-> "test", name |-> name, n |-> dl.n,
                                depth |-> Len(stk), by |-> by]))

(* ------------------------ calls made by the caller --------------------- *)

\* the caller calls train(data_loader)
train ==
    \E n \in 0..MaxBatches :
        /\ Idle
        /\ events < MaxEvents
        /\ events' = events + 1
        /\ EnterTrain(<<>>, <<>>, DataLoader(n), "caller")
        /\ result' = [op |-> "train", outcome |-> "running"]
        /\ UNCHANGED <<step, epoch, params, sched_steps, configVars, extras, exc,
                       regLog, reentries>>

\* the caller calls test(data_loader, name)
test ==
    \E n \in 0..MaxBatches, name \in PhaseNames :
        /\ Idle
        /\ events < MaxEvents
        /\ events' = events + 1
        /\ EnterTest(<<>>, <<>>, DataLoader(n), name, "caller")
        /\ result' = [op |-> "test", outcome |-> "running"]
        /\ UNCHANGED <<step, epoch, params, sched_steps, configVars, extras, exc,
                       regLog, reentries>>

\* the caller calls run(epochs, train_data, test_data): line 196, the try
\* block is entered
run ==
    \E epochs \in (-1)..MaxEpochs, ntrain \in 0..MaxBatches, ntest \in 0..MaxBatches :
        /\ Idle
        /\ events + 2 <= MaxEvents
        /\ events' = events + 2
        /\ stack' = <<[Frame("run", 1, "run", DataLoader(0)) EXCEPT
                          !.pc = "run_for", !.epochs = epochs,
                          !.train_data = DataLoader(ntrain),
                          !.test_data = DataLoader(ntest)]>>
        /\ log' = <<Entry("enter", 1, [fn |-> "run", name |-> "run", n |-> epochs,
                                       depth |-> 0, by |-> "caller"])>>
        /\ result' = [op |-> "run", outcome |-> "running"]
        /\ UNCHANGED <<trainerVars, configVars, extras, exc, regLog, lastEntered,
                       reentries>>

(* ------------------------------- _loop --------------------------------- *)

\* lines 156-161: the "start of epoch" dispatch
Loop_start_epoch ==
    /\ Running
    /\ Top.pc = "start_epoch"
    /\ log' = Append(log, Entry("start_epoch", Top.id, Ctx_start_epoch(Top)))
    /\ stack' = SetTop([Top EXCEPT !.pc = "for", !.cb = "start_epoch"])
    /\ UNCHANGED <<trainerVars, configVars, extras, exc, regLog, lastEntered, result,
                   events, reentries>>

\* (mutant) the loop stops one batch early
Loop_for_early ==
    /\ Running
    /\ Top.pc = "for"
    /\ LET dl == IF verb /\ Top.i = 0 THEN TQDMWrapper(Top.dl) ELSE Top.dl
       IN  stack' = SetTop(IF Top.i + 1 < LenOf(dl)
                           THEN [Top EXCEPT !.pc = "start_iteration", !.cb = "none",
                                            !.dl = dl, !.data = BatchOf(dl, Top.i + 1)]
                           ELSE [Top EXCEPT !.pc = "end_epoch", !.cb = "none",
                                            !.dl = dl])
    /\ UNCHANGED <<trainerVars, configVars, extras, exc, log, regLog, lastEntered,
                   result, events, reentries>>

\* lines 163-165: the source is wrapped when verb is set (once, before the
\* first batch), and the for statement takes the next batch or leaves the loop
Loop_for ==
    /\ Running
    /\ Top.pc = "for"
    /\ LET dl == IF verb /\ Top.i = 0 THEN TQDMWrapper(Top.dl) ELSE Top.dl
       IN  stack' = SetTop(IF Top.i < LenOf(dl)
                           THEN [Top EXCEPT !.pc = "start_iteration", !.cb = "none",
                                            !.dl = dl, !.data = BatchOf(dl, Top.i + 1)]
                           ELSE [Top EXCEPT !.pc = "end_epoch", !.cb = "none",
                                            !.dl = dl])
    /\ UNCHANGED <<trainerVars, configVars, extras, exc, log, regLog, lastEntered,
                   result, events, reentries>>

\* lines 137-142: the "start of iteration" dispatch
Iteration_start ==
    /\ Running
    /\ Top.pc = "start_iteration"
    /\ log' = Append(log, Entry("start_iteration", Top.id, Ctx_start_iteration(Top)))
    /\ stack' = SetTop([Top EXCEPT !.pc = "iteration", !.cb = "start_iteration"])
    /\ UNCHANGED <<trainerVars, configVars, extras, exc, regLog, lastEntered, result,
                   events, reentries>>

\* (mutant) the optimizer steps before the loss is back-propagated
iteration_stepfirst ==
    /\ Running
    /\ Top.pc = "iteration"
    /\ LET output == Forward(params, Top.data)
           loss == LossF(output)
           fwd == Entry("forward", Top.id,
                        [data |-> Top.data, w |-> params, output |-> output,
                         loss |-> loss, is_train |-> is_train])
       IN  /\ stack' = SetTop([Top EXCEPT !.pc = "end_iteration", !.cb = "none",
                                          !.loss = loss, !.output = output])
           /\ IF is_train
              THEN /\ params' = params + 1
                   /\ log' = log \o <<fwd,
                                      Entry("zero_grad", Top.id, <<>>),
                                      Entry("optimizer_step", Top.id, <<>>),
                                      Entry("backward", Top.id, [loss |-> loss])>>
              ELSE /\ params' = params
                   /\ log' = Append(log, fwd)
    /\ UNCHANGED <<step, epoch, is_train, model_training, sched_steps, configVars,
                   extras, exc, regLog, lastEntered, result, events, reentries>>

\* SupervisedTrainer.iteration, lines 239-246, called at line 143: forward,
\* loss, and in training mode zero_grad, backward, optimizer step
iteration ==
    /\ Running
    /\ Top.pc = "iteration"
    /\ LET output == Forward(params, Top.data)
           loss == LossF(output)
           fwd == Entry("forward", Top.id,
                        [data |-> Top.data, w |-> params, output |-> output,
                         loss |-> loss, is_train |-> is_train])
       IN  /\ stack' = SetTop([Top EXCEPT !.pc = "end_iteration", !.cb = "none",
                                          !.loss = loss, !.output = output])
           /\ IF is_train
              THEN /\ params' = params + 1
                   /\ log' = log \o <<fwd,
                                      Entry("zero_grad", Top.id, <<>>),
                                      Entry("backward", Top.id, [loss |-> loss]),
                                      Entry("optimizer_step", Top.id, <<>>)>>
              ELSE /\ params' = params
                   /\ log' = Append(log, fwd)
    /\ UNCHANGED <<step, epoch, is_train, model_training, sched_steps, configVars,
                   extras, exc, regLog, lastEntered, result, events, reentries>>

\* lines 144-153: the "end of iteration" dispatch
Iteration_end ==
    /\ Running
    /\ Top.pc = "end_iteration"
    /\ log' = Append(log, Entry("end_iteration", Top.id, Ctx_end_iteration(Top)))
    /\ stack' = SetTop([Top EXCEPT !.pc = "step", !.cb = "end_iteration"])
    /\ UNCHANGED <<trainerVars, configVars, extras, exc, regLog, lastEntered, result,
                   events, reentries>>

\* (mutant) the counter misses the first batch of every epoch
Loop_step_skipfirst ==
    /\ Running
    /\ Top.pc = "step"
    /\ step' = IF is_train /\ Top.i > 0 THEN step + 1 ELSE step
    /\ stack' = SetTop([Top EXCEPT !.pc = "for", !.cb = "none", !.i = @ + 1])
    /\ UNCHANGED <<epoch, is_train, model_training, params, sched_steps, configVars,
                   extras, exc, log, regLog, lastEntered, result, events, reentries>>

\* (mutant) the counter moves in test() too
Loop_step_always ==
    /\ Running
    /\ Top.pc = "step"
    /\ step' = step + 1
    /\ stack' = SetTop([Top EXCEPT !.pc = "for", !.cb = "none", !.i = @ + 1])
    /\ UNCHANGED <<epoch, is_train, model_training, params, sched_steps, configVars,
                   extras, exc, log, regLog, lastEntered, result, events, reentries>>

\* lines 167-168: the step counter moves only while the flag says training
Loop_step ==
    /\ Running
    /\ Top.pc = "step"
    /\ step' = IF is_train THEN step + 1 ELSE step
    /\ stack' = SetTop([Top EXCEPT !.pc = "for", !.cb = "none", !.i = @ + 1])
    /\ UNCHANGED <<epoch, is_train, model_training, params, sched_steps, configVars,
                   extras, exc, log, regLog, lastEntered, result, events, reentries>>

\* lines 170-178: the "end of epoch" dispatch
Loop_end_epoch ==
    /\ Running
    /\ Top.pc = "end_epoch"
    /\ log' = Append(log, Entry("end_epoch", Top.id, Ctx_end_epoch(Top)))
    /\ stack' = SetTop([Top EXCEPT !.pc = IF Top.fn = "train" THEN "scheduler" ELSE "ret",
                                   !.cb = "end_epoch"])
    /\ UNCHANGED <<trainerVars, configVars, extras, exc, regLog, lastEntered, result,
                   events, reentries>>

\* (mutant) the epoch counter moves before the scheduler
Train_finish_epochfirst ==
    /\ Running
    /\ Top.pc = "scheduler"
    /\ sched_steps' = IF scheduler # "none" THEN sched_steps + 1 ELSE sched_steps
    /\ log' = IF scheduler # "none"
              THEN Append(log, Entry("scheduler_step", Top.id, [epoch |-> epoch + 1]))
              ELSE log
    /\ epoch' = epoch + 1
    /\ stack' = SetTop([Top EXCEPT !.pc = "ret", !.cb = "none"])
    /\ UNCHANGED <<step, is_train, model_training, params, configVars, extras, exc,
                   regLog, lastEntered, result, events, reentries>>

\* train(), lines 185-187: the scheduler, when there is one, then the epoch
Train_finish ==
    /\ Running
    /\ Top.pc = "scheduler"
    /\ sched_steps' = IF scheduler # "none" THEN sched_steps + 1 ELSE sched_steps
    /\ log' = IF scheduler # "none"
              THEN Append(log, Entry("scheduler_step", Top.id, [epoch |-> epoch]))
              ELSE log
    /\ epoch' = epoch + 1
    /\ stack' = SetTop([Top EXCEPT !.pc = "ret", !.cb = "none"])
    /\ UNCHANGED <<step, is_train, model_training, params, configVars, extras, exc,
                   regLog, lastEntered, result, events, reentries>>

\* (mutant) a call that returns into a train() epoch puts the trainer and
\* the model back in training mode
Return_restore ==
    /\ Running
    /\ Top.pc = "ret"
    /\ Top.fn \in {"train", "test"}
    /\ stack' = SubSeq(stack, 1, Len(stack) - 1)
    /\ log' = Append(log, Entry("return", Top.id, [fn |-> Top.fn, epoch |-> epoch]))
    /\ result' = IF Len(stack) = 1 THEN [op |-> Top.fn, outcome |-> "returned"]
                 ELSE result
    /\ is_train' = IF Len(stack) > 1 /\ stack[Len(stack) - 1].fn = "train"
                   THEN TRUE ELSE is_train
    /\ model_training' = IF Len(stack) > 1 /\ stack[Len(stack) - 1].fn = "train"
                         THEN TRUE ELSE model_training
    /\ UNCHANGED <<step, epoch, params, sched_steps, configVars, extras, exc, regLog,
                   lastEntered, events, reentries>>

\* train() or test() returns to its caller
Return ==
    /\ Running
    /\ Top.pc = "ret"
    /\ Top.fn \in {"train", "test"}
    /\ stack' = SubSeq(stack, 1, Len(stack) - 1)
    /\ log' = Append(log, Entry("return", Top.id, [fn |-> Top.fn, epoch |-> epoch]))
    /\ result' = IF Len(stack) = 1 THEN [op |-> Top.fn, outcome |-> "returned"]
                 ELSE result
    /\ UNCHANGED <<trainerVars, configVars, extras, exc, regLog, lastEntered, events, reentries>>

(* -------------------------------- run ---------------------------------- *)

\* lines 197-198: the next cycle starts with train(train_data)
Run_train ==
    /\ Running
    /\ Top.fn = "run"
    /\ Top.pc = "run_for"
    /\ Top.ep < Top.epochs
    /\ EnterTrain(SetTop([Top EXCEPT !.pc = "run_test", !.ep = @ + 1]), log, Top.train_data, "run")
    /\ UNCHANGED <<step, epoch, params, sched_steps, configVars, extras, exc, regLog,
                   result, events, reentries>>

\* (mutant) the cycle tests on the training source
Run_test_wrongsource ==
    /\ Running
    /\ Top.fn = "run"
    /\ Top.pc = "run_test"
    /\ EnterTest(SetTop([Top EXCEPT !.pc = "run_for"]), log, Top.train_data, TEST, "run")
    /\ UNCHANGED <<step, epoch, params, sched_steps, configVars, extras, exc, regLog,
                   result, events, reentries>>

\* line 199: the cycle goes on with test(test_data)
Run_test ==
    /\ Running
    /\ Top.fn = "run"
    /\ Top.pc = "run_test"
    /\ EnterTest(SetTop([Top EXCEPT !.pc = "run_for"]), log, Top.test_data, TEST, "run")
    /\ UNCHANGED <<step, epoch, params, sched_steps, configVars, extras, exc, regLog,
                   result, events, reentries>>

\* line 200 and _exit, lines 207-213: after the last cycle, the "end of run"
\* dispatch
Exit ==
    /\ Running
    /\ Top.fn = "run"
    /\ Top.pc = "run_for"
    /\ Top.ep >= Top.epochs
    /\ log' = Append(log, Entry("end_all", Top.id, Ctx_end_all))
    /\ stack' = SetTop([Top EXCEPT !.pc = "try_end", !.cb = "end_all"])
    /\ UNCHANGED <<trainerVars, configVars, extras, exc, regLog, lastEntered, result,
                   events, reentries>>

\* lines 204-205: the finally block closes the dispatcher
Run_finally ==
    /\ Running
    /\ Top.fn = "run"
    /\ Top.pc \in {"try_end", "finally"}
    /\ log' = Append(log, Entry("close", Top.id, <<>>))
    /\ stack' = SetTop([Top EXCEPT !.pc = "closed", !.cb = "close"])
    /\ UNCHANGED <<trainerVars, configVars, extras, exc, regLog, lastEntered, result,
                   events, reentries>>

\* the end of the try statement: an exception the except clause did not
\* take is raised again after the finally block, otherwise run() returns
Run_end ==
    /\ Running
    /\ Top.fn = "run"
    /\ Top.pc = "closed"
    /\ IF Top.pending = "none"
       THEN /\ stack' = <<>>
            /\ exc' = "none"
            /\ log' = Append(log, Entry("return", Top.id, [fn |-> "run"]))
            /\ result' = [op |-> "run", outcome |-> "returned"]
       ELSE /\ stack' = SetTop([Top EXCEPT !.cb = "none"])
            /\ exc' = Top.pending
            /\ log' = log
            /\ result' = result
    /\ UNCHANGED <<trainerVars, configVars, extras, regLog, lastEntered, events, reentries>>

(* ----------------------------- exceptions ------------------------------ *)

\* the run() frame is inside its try block (lines 197-200)
InTry(f) == f.fn = "run" /\ f.pc \in {"run_for", "run_test", "try_end"}

\* the collaborators that may be running: the callback of the last
\* dispatch, which has not been seen to return; the data source (line 165);
\* the model, loss and optimizer (line 143); the scheduler (line 186)
RaisePoints(f) ==
    (IF f.cb # "none" THEN {f.cb} ELSE {})
        \cup (IF f.fn \in {"train", "test"} /\ f.pc \in {"for", "iteration"}
              THEN {f.pc} ELSE {})
        \cup (IF f.fn = "train" /\ f.pc = "scheduler" /\ scheduler # "none"
              THEN {f.pc} ELSE {})

\* a collaborator raises: the operator's interrupt, or any other exception
CollaboratorRaises ==
    /\ Running
    /\ events < MaxEvents
    /\ \E e \in Excs, at \in RaisePoints(Top) :
           /\ exc' = e
           /\ log' = Append(log, Entry("raise", Top.id, [exc |-> e, at |-> at]))
    /\ events' = events + 1
    /\ UNCHANGED <<trainerVars, configVars, extras, stack, regLog, lastEntered,
                   result, reentries>>

\* (mutant) only the except clause closes the dispatcher: any other
\* exception leaves run() at once
Propagate_noclose ==
    /\ exc # "none"
    /\ stack # <<>>
    /\ IF InTry(stack[1]) /\ exc = "KeyboardInterrupt"
       THEN /\ stack' = <<[stack[1] EXCEPT !.pc = "finally", !.cb = "none",
                                           !.pending = "none", !.interrupted = TRUE]>>
            /\ log' = Append(log, Entry("interrupted", stack[1].id, <<>>))
            /\ result' = result
       ELSE /\ stack' = <<>>
            /\ log' = log
            /\ result' = [op |-> stack[1].fn, outcome |-> exc]
    /\ exc' = "none"
    /\ UNCHANGED <<trainerVars, configVars, extras, regLog, lastEntered, events,
                   reentries>>

\* (mutant) the except clause prints the notice and raises again
Propagate_reraise ==
    /\ exc # "none"
    /\ stack # <<>>
    /\ IF InTry(stack[1])
       THEN /\ stack' = <<[stack[1] EXCEPT !.pc = "finally", !.cb = "none",
                                           !.pending = exc,
                                           !.interrupted = (exc = "KeyboardInterrupt")]>>
            /\ log' = IF exc = "KeyboardInterrupt"
                      THEN Append(log, Entry("interrupted", stack[1].id, <<>>))
                      ELSE log
            /\ result' = result
       ELSE /\ stack' = <<>>
            /\ log' = log
            /\ result' = [op |-> stack[1].fn, outcome |-> exc]
    /\ exc' = "none"
    /\ UNCHANGED <<trainerVars, configVars, extras, regLog, lastEntered, events,
                   reentries>>

\* (mutant) the except clause takes every exception
Propagate_swallow ==
    /\ exc # "none"
    /\ stack # <<>>
    /\ IF InTry(stack[1])
       THEN /\ stack' = <<[stack[1] EXCEPT !.pc = "finally", !.cb = "none",
                                           !.pending = "none", !.interrupted = TRUE]>>
            /\ log' = Append(log, Entry("interrupted", stack[1].id, <<>>))
            /\ result' = result
       ELSE /\ stack' = <<>>
            /\ log' = log
            /\ result' = [op |-> stack[1].fn, outcome |-> exc]
    /\ exc' = "none"
    /\ UNCHANGED <<trainerVars, configVars, extras, regLog, lastEntered, events,
                   reentries>>

\* the exception leaves train()/test() frames (none has a handler) and
\* reaches either run()'s try statement, lines 202-204, or the caller
Propagate ==
    /\ exc # "none"
    /\ stack # <<>>
    /\ IF InTry(stack[1])
       THEN /\ stack' = <<[stack[1] EXCEPT
                              !.pc = "finally", !.cb = "none",
                              !.pending = IF exc = "KeyboardInterrupt" THEN "none" ELSE exc,
                              !.interrupted = (exc = "KeyboardInterrupt")]>>
            /\ log' = IF exc = "KeyboardInterrupt"
                      THEN Append(log, Entry("interrupted", stack[1].id, <<>>))
                      ELSE log
            /\ result' = result
       ELSE /\ stack' = <<>>
            /\ log' = log
            /\ result' = [op |-> stack[1].fn, outcome |-> exc]
    /\ exc' = "none"
    /\ UNCHANGED <<trainerVars, configVars, extras, regLog, lastEntered, events, reentries>>

(* ------------------------- re-entrant callbacks ------------------------ *)

\* a hook's callback calls train() on the trainer it got under TRAINER
Callback_train ==
    \E n \in 0..MaxBatches :
        /\ Running
        /\ Top.cb \in Hooks
        /\ events < MaxEvents
        /\ reentries < MaxReenter
        /\ events' = events + 1
        /\ reentries' = reentries + 1
        /\ EnterTrain(MarkNested(stack, "train"), log, DataLoader(n), "callback")
        /\ UNCHANGED <<step, epoch, params, sched_steps, configVars, extras, exc,
                       regLog, result>>

\* a hook's callback calls test() on the trainer
Callback_test ==
    \E n \in 0..MaxBatches :
        /\ Running
        /\ Top.cb \in Hooks
        /\ events < MaxEvents
        /\ reentries < MaxReenter
        /\ events' = events + 1
        /\ reentries' = reentries + 1
        /\ EnterTest(MarkNested(stack, "test"), log, DataLoader(n), TEST, "callback")
        /\ UNCHANGED <<step, epoch, params, sched_steps, configVars, extras, exc,
                       regLog, result>>

(* --------------------------- specifications ---------------------------- *)

Registration ==
    \/ register_start_iteration
    \/ register_end_iteration
    \/ register_start_epoch
    \/ register_end_epoch
    \/ register_end_all

Lifecycle ==
    \/ train
    \/ test
    \/ run
    \/ Loop_start_epoch
    \/ Loop_for
    \/ Iteration_start
    \/ iteration
    \/ Iteration_end
    \/ Loop_step
    \/ Loop_end_epoch
    \/ Train_finish
    \/ Return
    \/ Run_train
    \/ Run_test
    \/ Exit
    \/ Run_finally
    \/ Run_end
    \/ CollaboratorRaises
    \/ Propagate

\* the trainer used as its documentation asks: one call at a time
Next ==
    \/ Registration
    \/ Lifecycle

Spec == Init /\ [][Next]_vars

\* the trainer with callbacks that call train()/test() on it
NextReentrant ==
    \/ Lifecycle
    \/ Callback_train
    \/ Callback_test

SpecReentrant == Init /\ [][NextReentrant]_vars

(* ----------------------------- construction ---------------------------- *)

\* most extra keyword arguments a constructor call carries
MaxKwargs == 2

\* keys of the keyed collections handed to the constructor
Keys == {"a", "b"}

\* an argument or an attribute value: what it is, and its keys when keyed
Val(v) == [v |-> v, keys |-> {}]

Keyed(v, ks) == [v |-> v, keys |-> ks]

\* model: an nn.Module, a dict of modules, or something else
ModelArgs == {Val("Module"), Val("other")} \cup {Keyed("dict", ks) : ks \in SUBSET Keys}

\* optimizer: an Optimizer adapter, a dict of them, or something else
OptimizerArgs == {Val("Optimizer"), Val("other")} \cup {Keyed("dict", ks) : ks \in SUBSET Keys}

\* scheduler: None, a Scheduler adapter, a dict of them, or something else
SchedulerArgs ==
    {Val("None"), Val("Scheduler"), Val("other")} \cup {Keyed("dict", ks) : ks \in SUBSET Keys}

\* names of extra keyword arguments: a fresh one, a counter, a registry, a method
KwNames == {"tag", "_step", "_start_iteration", "run"}

\* **kwargs: n (name, value) pairs with distinct names, in call order
KwargsOf(n) ==
    {kw \in [1..n -> [name : KwNames, value : Values]] :
        \A i, j \in 1..n : i # j => kw[i].name # kw[j].name}

Kwargs == UNION {KwargsOf(n) : n \in 0..MaxKwargs}

Registries == {"_start_iteration", "_end_iteration", "_start_epoch", "_end_epoch", "_end_all"}

Counters == {"_step", "_epoch"}

\* what hasattr finds on the class: the methods and the is_train property
ClassAttrs ==
    {"iteration", "register_start_iteration", "register_end_iteration",
     "register_start_epoch", "register_end_epoch", "register_end_all",
     "_iteration", "_loop", "train", "test", "run", "_exit", "is_train", "to_device"}

\* hasattr(self, k), line 101
HasAttr(attrs, k) == k \in DOMAIN attrs \/ k \in ClassAttrs

\* setattr(self, k, v) and self.k = v
SetAttr(attrs, k, v) ==
    [x \in (DOMAIN attrs) \cup {k} |-> IF x = k THEN v ELSE attrs[x]]

\* the constructor raises e: no object is returned
Fail(c, e) == [c EXCEPT !.pc = "raised", !.exc = e]

\* the builtin class `dict`, which line 40 passes to nn.ModuleDict
DictType == Val("type")

\* torch's nn.ModuleDict(modules): update() takes a mapping (or an iterable
\* of pairs) and raises TypeError for anything that is not iterable
ModuleDict(modules) ==
    IF modules.v = "dict"
    THEN [exc |-> "none", module |-> Keyed("ModuleDict", modules.keys)]
    ELSE [exc |-> "TypeError", module |-> Val("none")]

\* lines 36-44: set model(s)
SetModel(c) ==
    LET m == c.args.model
    IN  IF m.v = "Module"
        THEN [c EXCEPT !.pc = "optimizer",
                       !.attrs = SetAttr(SetAttr(@, "model", m),
                                         "_is_single_model", Val("True"))]
        ELSE IF m.v = "dict"
        THEN LET md == ModuleDict(DictType)
             IN  IF md.exc # "none"
                 THEN Fail(c, md.exc)
                 ELSE [c EXCEPT !.pc = "optimizer",
                                !.attrs = SetAttr(SetAttr(@, "model", md.module),
                                                  "_is_single_model", Val("False"))]
        ELSE Fail(c, "TypeError")

\* (mutant) the check of line 56 is missing
SetOptimizer_nocheck(c) ==
    LET o == c.args.optimizer
    IN  IF o.v = "Optimizer"
        THEN [c EXCEPT !.pc = "scheduler",
                       !.attrs = SetAttr(@, "optimizer", Val("optim"))]
        ELSE IF o.v = "dict"
        THEN IF o.keys \subseteq c.attrs["model"].keys
             THEN [c EXCEPT !.pc = "scheduler",
                            !.attrs = SetAttr(@, "optimizer", Keyed("dict", o.keys))]
             ELSE Fail(c, "KeyError")
        ELSE [c EXCEPT !.pc = "scheduler"]

\* lines 52-66: set optimizer(s); an optimizer that is neither an Optimizer
\* nor a dict sets nothing
SetOptimizer(c) ==
    LET o == c.args.optimizer
    IN  IF o.v = "Optimizer"
        THEN [c EXCEPT !.pc = "scheduler",
                       !.attrs = SetAttr(@, "optimizer", Val("optim"))]
        ELSE IF o.v = "dict"
        THEN IF c.args.model.v # "dict"
             THEN Fail(c, "TypeError")
             ELSE IF o.keys \subseteq c.attrs["model"].keys
             THEN [c EXCEPT !.pc = "scheduler",
                            !.attrs = SetAttr(@, "optimizer", Keyed("dict", o.keys))]
             ELSE Fail(c, "KeyError")
        ELSE [c EXCEPT !.pc = "scheduler"]

\* (mutant) the check of line 75 is missing
SetScheduler_nocheck(c) ==
    LET sc == c.args.scheduler
    IN  IF sc.v = "None"
        THEN [c EXCEPT !.pc = "fields", !.attrs = SetAttr(@, "_scheduler", Val("None"))]
        ELSE IF sc.v = "Scheduler"
        THEN IF "optimizer" \in DOMAIN c.attrs
             THEN [c EXCEPT !.pc = "fields",
                            !.attrs = SetAttr(@, "_scheduler", Val("scheduler"))]
             ELSE Fail(c, "AttributeError")
        ELSE IF sc.v = "dict"
        THEN IF "optimizer" \notin DOMAIN c.attrs
             THEN Fail(c, "AttributeError")
             ELSE IF sc.keys \subseteq c.attrs["optimizer"].keys
             THEN [c EXCEPT !.pc = "fields",
                            !.attrs = SetAttr(@, "_scheduler", Keyed("dict", sc.keys))]
             ELSE Fail(c, "KeyError")
        ELSE [c EXCEPT !.pc = "fields"]

\* lines 69-84: set scheduler(s); line 72 reads self.optimizer, which is not
\* there when the optimizer was neither an Optimizer nor a dict
SetScheduler(c) ==
    LET sc == c.args.scheduler
    IN  IF sc.v = "None"
        THEN [c EXCEPT !.pc = "fields", !.attrs = SetAttr(@, "_scheduler", Val("None"))]
        ELSE IF sc.v = "Scheduler"
        THEN IF "optimizer" \in DOMAIN c.attrs
             THEN [c EXCEPT !.pc = "fields",
                            !.attrs = SetAttr(@, "_scheduler", Val("scheduler"))]
             ELSE Fail(c, "AttributeError")
        ELSE IF sc.v = "dict"
        THEN IF c.args.optimizer.v # "dict"
             THEN Fail(c, "TypeError")
             ELSE IF sc.keys \subseteq c.attrs["optimizer"].keys
             THEN [c EXCEPT !.pc = "fields",
                            !.attrs = SetAttr(@, "_scheduler", Keyed("dict", sc.keys))]
             ELSE Fail(c, "KeyError")
        ELSE [c EXCEPT !.pc = "fields"]

\* lines 86-97: loss, callbacks, counters, verb, flag
SetFields(c) ==
    [c EXCEPT !.pc = "kwargs",
              !.attrs = SetAttr(SetAttr(SetAttr(SetAttr(SetAttr(SetAttr(@,
                            "loss_f", Val("loss_f")),
                            "_callbacks", Val("CallbackList")),
                            "_step", Val("0")),
                            "_epoch", Val("0")),
                            "_verb", Val("verb")),
                            "_is_train", Val("True"))]

RECURSIVE KwargsLoop(_, _)

\* lines 100-103, from the i-th keyword argument on
KwargsLoop(c, i) ==
    IF i > Len(c.args.kwargs)
    THEN [c EXCEPT !.pc = "registries"]
    ELSE IF HasAttr(c.attrs, c.args.kwargs[i].name)
    THEN Fail(c, "AttributeError")
    ELSE KwargsLoop([c EXCEPT !.attrs = SetAttr(@, c.args.kwargs[i].name,
                                                  Val(c.args.kwargs[i].value))],
                    i + 1)

\* lines 100-103: set kwargs
SetKwargs(c) == KwargsLoop(c, 1)

\* lines 105-109: the five registries, empty
SetRegistries(c) ==
    [c EXCEPT !.pc = "done",
              !.attrs = [x \in (DOMAIN @) \cup Registries |->
                            IF x \in Registries THEN Val("{}") ELSE @[x]]]

lifecycleVars ==
    <<step, epoch, is_train, verb, scheduler, extras, model_training, params,
      sched_steps, stack, exc, log, regLog, lastEntered, result, events, reentries>>

\* a constructor call is about to start: its arguments, and the attribute
\* line 33 sets; the variables of the trainer in use are not read before
\* the call is over
InitConstruct ==
    /\ step = 0
    /\ epoch = 0
    /\ is_train = TRUE
    /\ verb = TRUE
    /\ scheduler = "none"
    /\ extras = NoExtras
    /\ model_training = TRUE
    /\ params = 0
    /\ sched_steps = 0
    /\ stack = <<>>
    /\ exc = "none"
    /\ log = <<>>
    /\ regLog = <<>>
    /\ lastEntered = "none"
    /\ result = [op |-> "none", outcome |-> "none"]
    /\ events = 0
    /\ reentries = 0
    /\ \E supervised \in BOOLEAN, m \in ModelArgs, o \in OptimizerArgs,
          sc \in SchedulerArgs, kw \in Kwargs :
           ctor = [pc |-> "new",
                   args |-> [supervised |-> supervised, model |-> m, optimizer |-> o,
                             scheduler |-> sc, kwargs |-> kw],
                   attrs |-> [x \in {"_device"} |-> Val("cpu")],
                   exc |-> "none"]

\* SupervisedTrainer.__init__, lines 233-236: no dict model, then the base
\* constructor
SupervisedTrainer_init ==
    /\ ctor.pc = "new"
    /\ ctor.args.supervised
    /\ ctor' = IF ctor.args.model.v = "dict"
               THEN Fail(ctor, "TypeError")
               ELSE [ctor EXCEPT !.pc = "model"]
    /\ UNCHANGED lifecycleVars

\* another subclass of TrainerBase goes to the base constructor at once
Subclass_init ==
    /\ ctor.pc = "new"
    /\ ~ctor.args.supervised
    /\ ctor' = [ctor EXCEPT !.pc = "model"]
    /\ UNCHANGED lifecycleVars

Init_model ==
    /\ ctor.pc = "model"
    /\ ctor' = SetModel(ctor)
    /\ UNCHANGED lifecycleVars

Init_optimizer ==
    /\ ctor.pc = "optimizer"
    /\ ctor' = SetOptimizer(ctor)
    /\ UNCHANGED lifecycleVars

Init_scheduler ==
    /\ ctor.pc = "scheduler"
    /\ ctor' = SetScheduler(ctor)
    /\ UNCHANGED lifecycleVars

Init_fields ==
    /\ ctor.pc = "fields"
    /\ ctor' = SetFields(ctor)
    /\ UNCHANGED lifecycleVars

Init_kwargs ==
    /\ ctor.pc = "kwargs"
    /\ ctor' = SetKwargs(ctor)
    /\ UNCHANGED lifecycleVars

Init_registries ==
    /\ ctor.pc = "registries"
    /\ ctor' = SetRegistries(ctor)
    /\ UNCHANGED lifecycleVars

NextConstruct ==
    \/ SupervisedTrainer_init
    \/ Subclass_init
    \/ Init_model
    \/ Init_optimizer
    \/ Init_scheduler
    \/ Init_fields
    \/ Init_kwargs
    \/ Init_registries

\* one constructor call, for every shape of its arguments
SpecConstruct == InitConstruct /\ [][NextConstruct]_vars

(* ------------------------ reading the log ------------------------------ *)

Frames == {stack[k] : k \in 1..Len(stack)}

LogIdx == 1..Len(log)

IsKind(j, kind) == log[j].kind = kind

\* the entries call c produced, in order
EntriesOf(c) == SelectSeq(log, LAMBDA e : e.call = c)

\* ... of which the steps of its epoch
EpochStepKinds == {"start_epoch", "start_iteration", "forward", "end_iteration", "end_epoch"}

StepsOf(c) == SelectSeq(log, LAMBDA e : e.call = c /\ e.kind \in EpochStepKinds)

KindsOf(seq) == [k \in 1..Len(seq) |-> seq[k].kind]

Returned(c) == \E j \in LogIdx : log[j].call = c /\ IsKind(j, "return")

\* the train()/test() calls in the log
EpochCalls == {c \in LogIdx : IsKind(c, "enter") /\ log[c].ctx.fn \in {"train", "test"}}

\* the caller's last call was run(), and it is over
RunEnded == stack = <<>> /\ log # <<>> /\ log[1].ctx.fn = "run"

IsRaise(j, e) == IsKind(j, "raise") /\ log[j].ctx.exc = e

NoRaise == \A j \in LogIdx : ~IsKind(j, "raise")

\* how many times the collaborators saw an operation of that kind
CountKind(kind) == Cardinality({j \in LogIdx : IsKind(j, kind)})

(* ------------------------------- C1 ------------------------------------ *)

\* C1: a train() call whose callbacks do not call train()/test() has, at
\* every moment, added one step per batch whose end-of-iteration dispatch
\* and increment are over; when it returns it has consumed all n batches, so
\* step grew by exactly n, and epoch grew by exactly 1 (and not before the
\* return).
C1_TrainCounts ==
    \A f \in Frames :
        (f.fn = "train" /\ ~f.nested) =>
            /\ step = f.step0 + f.i
            /\ f.pc = "step" => log[Len(log)].kind \in {"end_iteration", "raise"}
            /\ IF f.pc = "ret"
               THEN f.i = f.dl.n /\ step = f.step0 + f.dl.n /\ epoch = f.epoch0 + 1
               ELSE epoch = f.epoch0

C1_Witness ==
    \E f \in Frames :
        /\ f.fn = "train" /\ ~f.nested /\ f.pc = "ret" /\ exc = "none"
        /\ f.dl.n = MaxBatches /\ f.step0 > 0
        /\ step = f.step0 + MaxBatches

(* ------------------------------- C2 ------------------------------------ *)

\* C2 as stated: during a test() call, and when it returns or raises, step,
\* epoch and the scheduler are where they were when test() was entered.
C2_TestFrameAsStated ==
    \A f \in Frames :
        f.fn = "test" =>
            step = f.step0 /\ epoch = f.epoch0 /\ sched_steps = f.sched0

\* C2 amended: the same for every test() call during which no callback
\* calls train() on the trainer.
C2_TestFrame ==
    \A f \in Frames :
        (f.fn = "test" /\ ~f.nestedTrain) =>
            step = f.step0 /\ epoch = f.epoch0 /\ sched_steps = f.sched0

C2_Witness ==
    \E f \in Frames :
        /\ f.fn = "test" /\ ~f.nestedTrain /\ f.pc = "ret" /\ exc = "none"
        /\ f.i = MaxBatches /\ f.step0 > 0 /\ f.name = "val"

(* ------------------------------- C3 ------------------------------------ *)

DispatcherOps == Hooks \cup {"close"}

\* C3: in a run() call the dispatcher's close is called at most once, no
\* dispatcher operation follows it, and once run() is over (returned, or
\* left by an exception) it has been called exactly once.
C3_CloseOnce ==
    (log # <<>> /\ log[1].ctx.fn = "run") =>
        /\ CountKind("close") <= 1
        /\ \A j, k \in LogIdx :
               (IsKind(j, "close") /\ k > j) => log[k].kind \notin DispatcherOps
        /\ stack = <<>> => CountKind("close") = 1

C3_Witness ==
    /\ RunEnded
    /\ \E i \in LogIdx : IsRaise(i, "Exception") /\ log[i].ctx.at = "iteration"
    /\ result = [op |-> "run", outcome |-> "Exception"]
    /\ CountKind("close") = 1
    /\ IsKind(Len(log), "close")

(* ------------------------------- C4 ------------------------------------ *)

\* C4: after a KeyboardInterrupt raised inside run()'s try block (the
\* train/test loop or the end-of-run dispatch) nothing but the notice and
\* the close is seen by the collaborators: no hook is dispatched, no call is
\* entered, no batch is processed; the notice is printed as soon as the
\* exception has been taken; and when run() is over, close was called and,
\* unless close itself raised, run() returned normally.
C4_InterruptRecovered ==
    (log # <<>> /\ log[1].ctx.fn = "run") =>
        \A i \in LogIdx :
            (IsRaise(i, "KeyboardInterrupt") /\ log[i].ctx.at # "close") =>
                /\ \A j \in LogIdx :
                       j > i =>
                           /\ log[j].kind \in {"interrupted", "close", "raise", "return"}
                           /\ IsKind(j, "raise") => log[j].ctx.at = "close"
                           /\ IsKind(j, "return") => log[j].call = 1
                /\ exc = "none" => \E j \in LogIdx : j > i /\ IsKind(j, "interrupted")
                /\ stack = <<>> =>
                       /\ \E j \in LogIdx : j > i /\ IsKind(j, "close")
                       /\ (\A j \in LogIdx : j > i => ~IsKind(j, "raise")) =>
                              result = [op |-> "run", outcome |-> "returned"]

C4_Witness ==
    /\ RunEnded
    /\ result = [op |-> "run", outcome |-> "returned"]
    /\ \E i \in LogIdx :
           /\ IsRaise(i, "KeyboardInterrupt")
           /\ log[i].ctx.at = "end_iteration"
           /\ \E j \in LogIdx : j < i /\ IsKind(j, "enter") /\ log[j].ctx.fn = "test"
    /\ IsKind(Len(log), "return")

(* ------------------------------- C5 ------------------------------------ *)

\* the k-th step of an epoch over n batches
CanonKind(n, k) ==
    IF k = 1 THEN "start_epoch"
    ELSE IF k = 3 * n + 2 THEN "end_epoch"
    ELSE IF (k - 2) % 3 = 0 THEN "start_iteration"
    ELSE IF (k - 2) % 3 = 1 THEN "forward"
    ELSE "end_iteration"

\* the batch the k-th step belongs to
CanonBatch(k) == ((k - 2) \div 3) + 1

\* C5: the steps of every train()/test() call are, in order, a start of
\* epoch, then for batch 1, 2, ... of the source a start of iteration, the
\* iteration operation on that batch and an end of iteration carrying that
\* batch, then the end of epoch; a call that is still running or was left
\* by an exception has made a prefix of them, a call that returned all.
C5_EpochOrder ==
    \A c \in EpochCalls :
        LET s == StepsOf(c)
            n == log[c].ctx.n
        IN  /\ Len(s) <= 3 * n + 2
            /\ \A k \in 1..Len(s) :
                   /\ s[k].kind = CanonKind(n, k)
                   /\ s[k].kind = "forward" => s[k].ctx.data = CanonBatch(k)
                   /\ s[k].kind = "end_iteration" => s[k].ctx.DATA = CanonBatch(k)
            /\ Returned(c) => Len(s) = 3 * n + 2

C5_Witness ==
    \E c \in EpochCalls :
        /\ Returned(c)
        /\ log[c].ctx.n = MaxBatches
        /\ Len(StepsOf(c)) = 3 * MaxBatches + 2
        /\ log[c].ctx.fn = "test"

(* ------------------------------- C6 ------------------------------------ *)

Max0(x) == IF x > 0 THEN x ELSE 0

\* the train()/test() calls run() itself made, in order
RunCalls == SelectSeq(log, LAMBDA e : e.kind = "enter" /\ e.ctx.by = "run")

ReturnIdx(c) == CHOOSE j \in LogIdx : log[j].call = c /\ IsKind(j, "return")

\* the cycles of run frame f: its calls are train, test, train, test ... on
\* train_data and test_data, 2 * epochs of them, each returned before the
\* next is entered; then one end_all, then one close
RunCycles(f) ==
    LET cs == RunCalls
        e == Max0(f.epochs)
    IN  /\ Len(cs) = 2 * e
        /\ \A k \in 1..Len(cs) :
               /\ cs[k].ctx.fn = (IF k % 2 = 1 THEN "train" ELSE "test")
               /\ cs[k].ctx.name = (IF k % 2 = 1 THEN TRAIN ELSE TEST)
               /\ cs[k].ctx.n = (IF k % 2 = 1 THEN f.train_data.n ELSE f.test_data.n)
               /\ Returned(cs[k].call)
               /\ k < Len(cs) => ReturnIdx(cs[k].call) < cs[k + 1].call
        /\ CountKind("end_all") = 1
        /\ CountKind("close") = 1
        /\ \A j, k \in LogIdx :
               (IsKind(j, "end_all") /\ IsKind(k, "close")) =>
                   /\ j < k
                   /\ \A c \in 1..Len(cs) : ReturnIdx(cs[c].call) < j

\* a run() that raised nothing has called close and is about to return
RunComplete(f) == f.fn = "run" /\ f.pc = "closed" /\ exc = "none" /\ NoRaise

C7_ModeFlag ==
    /\ lastEntered = "none" => is_train
    /\ lastEntered # "none" =>
           /\ is_train <=> lastEntered = "train"
           /\ model_training <=> is_train

\* train() followed immediately by test(), at the end of test()
C7_Witness ==
    /\ stack # <<>>
    /\ Top.fn = "test" /\ Top.pc = "ret"
    /\ \E c \in EpochCalls : c < Top.id /\ log[c].ctx.fn = "train" /\ Returned(c)
    /\ ~is_train /\ ~model_training

(* ------------------------------- C8 ------------------------------------ *)

\* the keys the trainer itself puts in the context of each hook
BaseKeys(h) ==
    CASE h = "start_iteration" -> {"MODEL", "STEP", "NAME", "TRAINER"}
      [] h = "end_iteration" -> {"OUTPUT", "DATA", "MODEL", "LOSS", "STEP", "NAME", "TRAINER"}
      [] h = "start_epoch" -> {"MODEL", "NAME", "TRAINER"}
      [] h = "end_epoch" -> {"MODEL", "OPTIMIZER", "EPOCH", "NAME", "ITER_PER_EPOCH", "TRAINER"}
      [] h = "end_all" -> {"MODEL", "OPTIMIZER", "TRAINER"}

RegIdx(h, name) == {r \in 1..Len(regLog) : regLog[r].hook = h /\ regLog[r].name = name}

\* the data of the latest register_h(name, data) call
LastData(h, name) ==
    regLog[CHOOSE r \in RegIdx(h, name) : \A q \in RegIdx(h, name) : q <= r].data

\* C8: every context dispatched for hook h carries, for each name that
\* register_h was called with, the data of the latest such call, whatever
\* calls went between; a name registered only for other hooks adds no
\* entry and changes none (MODEL stays the trainer's model); and a registry
\* keeps every name given to it.
C8_Extras ==
    /\ \A j \in LogIdx :
           log[j].kind \in Hooks =>
               LET h == log[j].kind
                   ctx == log[j].ctx
               IN  /\ DOMAIN ctx = BaseKeys(h) \cup {nm \in Names : RegIdx(h, nm) # {}}
                   /\ \A nm \in Names :
                          IF RegIdx(h, nm) # {}
                          THEN ctx[nm] = LastData(h, nm)
                          ELSE nm \in DOMAIN ctx => ctx[nm] = "model"
    /\ \A h \in Hooks, nm \in Names :
           IF RegIdx(h, nm) # {}
           THEN nm \in DOMAIN extras[h] /\ extras[h][nm] = LastData(h, nm)
           ELSE nm \notin DOMAIN extras[h]

\* "tag" registered twice for start_epoch: the later value is dispatched,
\* and the end-of-epoch context of the same call has no such entry
C8_Witness ==
    /\ Len(regLog) = 2
    /\ regLog[1] = [hook |-> "start_epoch", name |-> "tag", data |-> "X"]
    /\ regLog[2] = [hook |-> "start_epoch", name |-> "tag", data |-> "Y"]
    /\ \E j, k \in LogIdx :
           /\ IsKind(j, "start_epoch") /\ log[j].ctx["tag"] = "Y"
           /\ IsKind(k, "end_epoch") /\ "tag" \notin DOMAIN log[k].ctx

(* ------------------------------- C9 ------------------------------------ *)

\* the forward pass of call c that came last before place j of the log
LastForward(c, j) ==
    CHOOSE i \in LogIdx :
        /\ i < j /\ log[i].call = c /\ IsKind(i, "forward")
        /\ \A q \in LogIdx : (q < j /\ log[q].call = c /\ IsKind(q, "forward")) => q <= i

\* C9: the LOSS of every end-of-iteration context is the loss the iteration
\* operation computed for the batch under DATA, with the parameters the
\* model had during that forward pass, and in training mode it is the value
\* that was back-propagated between the forward pass and the dispatch.
C9_Loss ==
    \A j \in LogIdx :
        IsKind(j, "end_iteration") =>
            /\ \E i \in LogIdx : i < j /\ log[i].call = log[j].call /\ IsKind(i, "forward")
            /\ LET fw == log[LastForward(log[j].call, j)].ctx
                   ctx == log[j].ctx
               IN  /\ ctx.DATA = fw.data
                   /\ ctx.LOSS = fw.loss
                   /\ ctx.LOSS = LossF(Forward(fw.w, ctx.DATA))
                   /\ ctx.OUTPUT = Forward(fw.w, ctx.DATA)
                   /\ fw.is_train =>
                          \E b \in LogIdx :
                              /\ LastForward(log[j].call, j) < b /\ b < j
                              /\ IsKind(b, "backward")
                              /\ log[b].call = log[j].call
                              /\ log[b].ctx.loss = ctx.LOSS

\* a training batch whose loss, computed again after the optimizer step,
\* would be another number
C9_Witness ==
    \E j \in LogIdx :
        /\ IsKind(j, "end_iteration")
        /\ j = Len(log)
        /\ log[j].ctx.NAME = TRAIN
        /\ log[j].ctx.DATA = MaxBatches
        /\ log[j].ctx.LOSS # LossF(Forward(params, log[j].ctx.DATA))

(* ------------------------------- C10 ----------------------------------- *)

\* C10: the ITER_PER_EPOCH of every end-of-epoch context is the number of
\* start-of-iteration dispatches, and of end-of-iteration dispatches, the
\* same call made before it, with the source wrapped (verb) or not.
C10_IterPerEpoch ==
    \A j \in LogIdx :
        IsKind(j, "end_epoch") =>
            /\ log[j].ctx.ITER_PER_EPOCH =
                   Cardinality({i \in LogIdx : i < j /\ log[i].call = log[j].call
                                               /\ IsKind(i, "end_iteration")})
            /\ log[j].ctx.ITER_PER_EPOCH =
                   Cardinality({i \in LogIdx : i < j /\ log[i].call = log[j].call
                                               /\ IsKind(i, "start_iteration")})

C10_Witness ==
    /\ verb
    /\ stack # <<>>
    /\ Top.dl.wrapped
    /\ \E j \in LogIdx :
           /\ IsKind(j, "end_epoch")
           /\ log[j].ctx.ITER_PER_EPOCH = MaxBatches
           /\ log[j].ctx.NAME = TEST
           /\ step # MaxBatches

(* ------------------------------- C11 ----------------------------------- *)

\* something is keyed and the keys of model, optimizer and scheduler do not
\* go together: a keyed optimizer whose keys are not the model's (or whose
\* model is not keyed), a keyed scheduler whose keys are not the optimizer's
\* (or whose optimizer is not keyed), a keyed model with a non-keyed optimizer
KeysMismatch(a) ==
    \/ a.optimizer.v = "dict" /\ (a.model.v # "dict" \/ a.optimizer.keys # a.model.keys)
    \/ a.scheduler.v = "dict" /\ (a.optimizer.v # "dict"
                                     \/ a.scheduler.keys # a.optimizer.keys)
    \/ a.model.v = "dict" /\ a.optimizer.v # "dict"

ConfigErrors == {"TypeError", "KeyError"}

\* C11: a constructor call whose keyed arguments do not go together never
\* gets past the binding of model, optimizer and scheduler, and when it has
\* raised, it raised a TypeError or a KeyError.
C11_KeyMismatch ==
    KeysMismatch(ctor.args) =>
        /\ ctor.pc \in {"new", "model", "optimizer", "scheduler", "raised"}
        /\ ctor.pc = "raised" => ctor.exc \in ConfigErrors

\* a keyed optimizer given with a single model and a scheduler for it
C11_Witness ==
    /\ ctor.pc = "raised"
    /\ ctor.exc = "TypeError"
    /\ ctor.args.model = Val("Module")
    /\ ctor.args.optimizer = Keyed("dict", {"a"})
    /\ ctor.args.scheduler = Keyed("dict", {"a"})
    /\ "model" \in DOMAIN ctor.attrs

(* ------------------------------- C12 ----------------------------------- *)

\* the nesting of shapes is violated
ShapeViolated(a) ==
    \/ a.model.v = "other"
    \/ a.optimizer.v = "dict" /\ a.model.v # "dict"
    \/ a.scheduler.v = "dict" /\ a.optimizer.v # "dict"
    \/ a.supervised /\ a.model.v = "dict"

\* C12: a constructor call that violates the nesting of shapes never
\* reaches the counters, the keyword arguments or the registries; when it
\* has raised, it raised a TypeError and the object has no counter, no flag
\* and no registry.
C12_ShapeError ==
    ShapeViolated(ctor.args) =>
        /\ ctor.pc \in {"new", "model", "optimizer", "scheduler", "raised"}
        /\ ctor.pc = "raised" =>
               /\ ctor.exc = "TypeError"
               /\ (DOMAIN ctor.attrs) \cap (Counters \cup Registries \cup {"_is_train"}) = {}

\* a keyed scheduler for a single optimizer
C12_Witness ==
    /\ ctor.pc = "raised"
    /\ ctor.exc = "TypeError"
    /\ ctor.args.model = Val("Module")
    /\ ctor.args.optimizer = Val("Optimizer")
    /\ ctor.args.scheduler = Keyed("dict", {})
    /\ "optimizer" \in DOMAIN ctor.attrs
    /\ "_step" \notin DOMAIN ctor.attrs

(* ------------------------------- C13 ----------------------------------- *)

\* the attributes of a finished trainer that are its own
TrainerAttrs ==
    ClassAttrs \cup Registries \cup Counters
        \cup {"_device", "model", "_is_single_model", "optimizer", "_scheduler",
              "loss_f", "_callbacks", "_verb", "_is_train"}

\* C13: when the constructor is over and got as far as the keyword
\* arguments, either it raised an AttributeError and one of the names is
\* the name of a trainer attribute, or it returned a trainer on which every
\* keyword argument is an attribute holding the value supplied and no name
\* is a trainer attribute's.
C13_KwargsKept ==
    LET kw == ctor.args.kwargs
    IN  /\ (ctor.pc = "raised" /\ "_is_train" \in DOMAIN ctor.attrs) =>
               /\ ctor.exc = "AttributeError"
               /\ \E i \in 1..Len(kw) : kw[i].name \in TrainerAttrs
        /\ ctor.pc = "done" =>
               \A i \in 1..Len(kw) :
                   /\ kw[i].name \notin TrainerAttrs
                   /\ kw[i].name \in DOMAIN ctor.attrs
                   /\ ctor.attrs[kw[i].name] = Val(kw[i].value)

(* ------------------------------- C14 ----------------------------------- *)

RaiseIdx == {j \in LogIdx : IsKind(j, "raise")}

\* the exception raised last
LastRaise == log[CHOOSE r \in RaiseIdx : \A q \in RaiseIdx : q <= r].ctx

\* C14: once a collaborator has raised anything but the interrupt, the
\* trainer calls no collaborator again except close (no batch, no hook, no
\* call is tried again); when the caller's train() or test() is over after a
\* raise, the exception raised, the interrupt included, is what the caller
\* gets and close was not called; when run() is over after a raise whose
\* last was not the interrupt, that exception is what the caller gets.
C14_Propagates ==
    /\ \A i \in LogIdx :
           (IsKind(i, "raise") /\ log[i].ctx.exc # "KeyboardInterrupt") =>
               \A j \in LogIdx : j > i => log[j].kind \in {"close", "raise"}
    /\ (Idle /\ RaiseIdx # {}) =>
           IF log[1].ctx.fn \in {"train", "test"}
           THEN /\ result = [op |-> log[1].ctx.fn, outcome |-> LastRaise.exc]
                /\ CountKind("close") = 0
                /\ CountKind("interrupted") = 0
           ELSE LastRaise.exc # "KeyboardInterrupt" =>
                    result = [op |-> "run", outcome |-> LastRaise.exc]

\* an interrupt in the end-of-epoch callback of a test() the caller called
C14_Witness ==
    /\ Idle
    /\ result = [op |-> "test", outcome |-> "KeyboardInterrupt"]
    /\ RaiseIdx # {}
    /\ LastRaise.at = "end_epoch"
    /\ IsKind(Len(log), "raise")
    /\ CountKind("end_iteration") = MaxBatches

(* ------------------------------- C15 ----------------------------------- *)

\* what call c did between places s and j of the log
Between(c, s, j) == SelectSeq(SubSeq(log, s + 1, j - 1), LAMBDA e : e.call = c)

\* the start-of-iteration dispatch of call c that came last before place j
LastStart(c, j) ==
    CHOOSE s \in LogIdx :
        /\ s < j /\ log[s].call = c /\ IsKind(s, "start_iteration")
        /\ \A q \in LogIdx :
               (q < j /\ log[q].call = c /\ IsKind(q, "start_iteration")) => q <= s

\* C15: between the start-of-iteration and the end-of-iteration dispatch of
\* a batch the call does, when is_train is true, forward, zero_grad,
\* backward of that loss and one optimizer step, in this order and nothing
\* else; when is_train is false the forward pass only; and the dispatch
\* carries the loss and the output of that forward pass.
C15_OptimizerOrder ==
    \A j \in LogIdx :
        IsKind(j, "end_iteration") =>
            LET c == log[j].call
                b == Between(c, LastStart(c, j), j)
            IN  /\ Len(b) >= 1
                /\ b[1].kind = "forward"
                /\ log[j].ctx.LOSS = b[1].ctx.loss
                /\ log[j].ctx.OUTPUT = b[1].ctx.output
                /\ IF b[1].ctx.is_train
                   THEN /\ KindsOf(b) = <<"forward", "zero_grad", "backward", "optimizer_step">>
                        /\ b[3].ctx.loss = b[1].ctx.loss
                   ELSE KindsOf(b) = <<"forward">>

\* a training batch and an evaluation batch in the same log
C15_Witness ==
    \E j, k \in LogIdx :
        /\ IsKind(j, "end_iteration") /\ IsKind(k, "end_iteration")
        /\ Len(Between(log[j].call, LastStart(log[j].call, j), j)) = 4
        /\ Len(Between(log[k].call, LastStart(log[k].call, k), k)) = 1
        /\ log[k].ctx.NAME = TEST

(* ------------------------------- C16 ----------------------------------- *)

SchedulerSteps(c) == {j \in LogIdx : log[j].call = c /\ IsKind(j, "scheduler_step")}

\* C16: a test() call never steps the scheduler; a train() call steps it at
\* most once, never when there is none, and only after its end-of-epoch
\* dispatch; a train() call that returned stepped it exactly once when there
\* is one, and the epoch counter was one higher at the return than at the
\* step; with or without a scheduler, a train() no callback called train()
\* in has added one to the epoch counter at its end and nothing before.
C16_SchedulerThenEpoch ==
    /\ \A c \in EpochCalls :
           IF log[c].ctx.fn = "test"
           THEN SchedulerSteps(c) = {}
           ELSE /\ Cardinality(SchedulerSteps(c)) <= 1
                /\ scheduler = "none" => SchedulerSteps(c) = {}
                /\ \A j \in SchedulerSteps(c) :
                       \E e \in LogIdx : e < j /\ log[e].call = c /\ IsKind(e, "end_epoch")
                /\ (Returned(c) /\ scheduler # "none") =>
                       /\ Cardinality(SchedulerSteps(c)) = 1
                       /\ \A j \in SchedulerSteps(c) :
                              /\ ReturnIdx(c) = j + 1
                              /\ log[j + 1].ctx.epoch = log[j].ctx.epoch + 1
    /\ \A f \in Frames :
           /\ (f.fn = "train" /\ ~f.nestedTrain) =>
                  /\ epoch = (IF f.pc = "ret" THEN f.epoch0 + 1 ELSE f.epoch0)
                  /\ sched_steps = (IF f.pc = "ret" /\ scheduler # "none"
                                    THEN f.sched0 + 1 ELSE f.sched0)
           /\ (f.fn = "test" /\ ~f.nestedTrain) => sched_steps = f.sched0

\* the second train() of a run() with a scheduler has just finished
C16_Witness ==
    /\ scheduler = "single"
    /\ Len(stack) = 2
    /\ Top.fn = "train" /\ Top.pc = "ret"
    /\ stack[1].fn = "run" /\ stack[1].ep = MaxEpochs
    /\ epoch = MaxEpochs
    /\ sched_steps = MaxEpochs
    /\ IsKind(Len(log), "scheduler_step")
    /\ log[Len(log)].ctx.epoch = MaxEpochs - 1

(* ------------------------------- C17 ----------------------------------- *)

\* the end-of-iteration dispatches call c made before place j of the log
DoneBefore(c, j) ==
    Cardinality({i \in LogIdx : i < j /\ log[i].call = c /\ IsKind(i, "end_iteration")})

\* the start- and end-of-iteration contexts of the call of frame f report
\* the step counter as it was when the call was entered, plus, in train(),
\* one for every batch of the call that was completed before
StepReported(f) ==
    \A j \in LogIdx :
        (log[j].call = f.id /\ log[j].kind \in {"start_iteration", "end_iteration"}) =>
            log[j].ctx.STEP = f.step0 + (IF f.fn = "train" THEN DoneBefore(f.id, j) ELSE 0)

\* C17 as stated: in every train() and test() call both contexts of a batch
\* report the same step, the number of training batches completed before
\* that batch: it grows by one per batch in train() and stays in test().
C17_StepReportedAsStated ==
    \A f \in Frames : f.fn \in {"train", "test"} => StepReported(f)

\* C17 amended: the same for a train() call during which no callback calls
\* train() or test() on the trainer, and for a test() call during which no
\* callback calls train().
C17_StepReported ==
    \A f \in Frames :
        ((f.fn = "train" /\ ~f.nested) \/ (f.fn = "test" /\ ~f.nestedTrain)) =>
            StepReported(f)

\* the second batch of a train() on a trainer that has trained before
C17_Witness ==
    \E f \in Frames :
        /\ f.fn = "train" /\ ~f.nested
        /\ f.step0 > 0
        /\ f.pc = "step" /\ f.i = 1 /\ f.dl.n = MaxBatches
        /\ IsKind(Len(log), "end_iteration")
        /\ log[Len(log)].ctx.STEP = f.step0 + 1
        /\ log[Len(log)].ctx.STEP = step

(* ------------------------------- C18 ----------------------------------- *)

\* the cycle the k-th call of run() belongs to
CycleOf(k) == (k + 1) \div 2

\* the end-of-epoch contexts of run()'s k-th call report the epoch e
EpochReported(k, e) ==
    \A j \in LogIdx :
        (log[j].call = RunCalls[k].call /\ IsKind(j, "end_epoch")) => log[j].ctx.EPOCH = e

\* run frame f was entered on a fresh trainer
Fresh(f) == f.fn = "run" /\ f.epoch0 = 0 /\ f.step0 = 0

\* in cycle k the train epoch reports k - 1 and the test epoch reports k
CycleEpochs ==
    \A k \in 1..Len(RunCalls) :
        EpochReported(k, IF RunCalls[k].ctx.fn = "train" THEN CycleOf(k) - 1 ELSE CycleOf(k))

\* C18 as stated: in a run() started on a fresh trainer the end-of-epoch
\* context of cycle k's train epoch reports epoch k - 1 and that of its test
\* epoch reports k.
C18_EpochReportedAsStated ==
    \A f \in Frames : Fresh(f) => CycleEpochs

\* C18 amended: the same, provided no callback calls train() on the trainer
\* during the run.
C18_EpochReported ==
    \A f \in Frames : (Fresh(f) /\ ~f.nestedTrain) => CycleEpochs

\* the test epoch of the last cycle has reported
C18_Witness ==
    \E f \in Frames :
        /\ Fresh(f) /\ ~f.nestedTrain
        /\ Len(RunCalls) = 2 * MaxEpochs
        /\ \E j, k \in LogIdx :
               /\ log[j].call = RunCalls[2 * MaxEpochs - 1].call /\ IsKind(j, "end_epoch")
               /\ log[j].ctx.EPOCH = MaxEpochs - 1
               /\ log[k].call = RunCalls[2 * MaxEpochs].call /\ IsKind(k, "end_epoch")
               /\ log[k].ctx.EPOCH = MaxEpochs

(* ------------------------------- C19 ----------------------------------- *)

\* every dispatched context carries, under a fixed key of its hook that an
\* extra was registered under for that hook, the registered value, and
\* under the fixed keys TRAINER and NAME, which no extra takes, what the
\* trainer supplies
Overridden ==
    \A j \in LogIdx :
        log[j].kind \in Hooks =>
            /\ \A nm \in Names \cap BaseKeys(log[j].kind) :
                   log[j].ctx[nm] = (IF RegIdx(log[j].kind, nm) # {}
                                     THEN LastData(log[j].kind, nm)
                                     ELSE "model")
            /\ log[j].ctx.TRAINER = "self"
            /\ "NAME" \in BaseKeys(log[j].kind) => log[j].ctx.NAME \in {TRAIN} \cup PhaseNames

\* C19: an extra registered for hook X under one of X's fixed keys replaces
\* the trainer's entry in every context dispatched for X afterwards, and a
\* registration changes neither the counters, the flag, the model nor the
\* optimizer and scheduler state.
C19_ExtrasOverride ==
    /\ []Overridden
    /\ [][regLog' # regLog => UNCHANGED trainerVars]_vars

\* MODEL registered for the start of iteration only: that context carries
\* the extra, the end-of-iteration context of the same batch the model
C19_Witness ==
    /\ \E r \in 1..Len(regLog) :
           regLog[r] = [hook |-> "start_iteration", name |-> "MODEL", data |-> "X"]
    /\ RegIdx("end_iteration", "MODEL") = {}
    /\ Len(log) >= 3
    /\ IsKind(Len(log), "end_iteration")
    /\ log[Len(log)].ctx.MODEL = "model"
    /\ \E j \in LogIdx : IsKind(j, "start_iteration") /\ log[j].ctx.MODEL = "X"
    /\ step > 0

(* ------------------------------- C20 ----------------------------------- *)

\* the calls callbacks made while the call of frame f was running
NestedIn(f) == {j \in LogIdx : j > f.id /\ IsKind(j, "enter") /\ log[j].ctx.by = "callback"}

FirstNested(f) == CHOOSE j \in NestedIn(f) : \A q \in NestedIn(f) : j <= q

\* what the call of frame f did last before place j
LastOwn(f, j) ==
    CHOOSE i \in LogIdx :
        /\ i < j /\ log[i].call = f.id
        /\ \A q \in LogIdx : (q < j /\ log[q].call = f.id) => q <= i

\* the batches of f whose step increment was over when the first nested
\* call was made: those whose end-of-iteration callback had returned
CountedBefore(f) ==
    DoneBefore(f.id, FirstNested(f))
        - (IF IsKind(LastOwn(f, FirstNested(f)), "end_iteration") THEN 1 ELSE 0)

\* C20: in a train() call whose callbacks called test() and never train(),
\* once those calls have returned the flag is false and the model is in
\* evaluation mode for the rest of the epoch; the step counter stays where
\* it was when the first of those calls was made; the batches after it are
\* processed without zero_grad, backward or optimizer step; and at its end
\* the call has still advanced the scheduler, when there is one, and the
\* epoch counter.
C20_NotReentrant ==
    \A f \in Frames :
        (f.fn = "train" /\ f.nested /\ ~f.nestedTrain /\ f = Top) =>
            /\ ~is_train
            /\ ~model_training
            /\ step = f.step0 + CountedBefore(f)
            /\ \A j \in LogIdx :
                   (j > FirstNested(f) /\ log[j].call = f.id) =>
                       /\ log[j].kind \notin {"zero_grad", "backward", "optimizer_step"}
                       /\ IsKind(j, "forward") => ~log[j].ctx.is_train
            /\ epoch = (IF f.pc = "ret" THEN f.epoch0 + 1 ELSE f.epoch0)
            /\ sched_steps = (IF f.pc = "ret" /\ scheduler # "none"
                              THEN f.sched0 + 1 ELSE f.sched0)
            /\ f.pc = "ret" => f.i = f.dl.n

\* test() called by the start-of-iteration callback of the first batch: two
\* batches are processed and the step counter has not moved
C20_Witness ==
    /\ stack # <<>>
    /\ Top.fn = "train" /\ Top.nested /\ ~Top.nestedTrain
    /\ Top.pc = "ret"
    /\ Top.dl.n = MaxBatches
    /\ IsKind(LastOwn(Top, FirstNested(Top)), "start_iteration")
    /\ step = Top.step0
    /\ scheduler = "single"
    /\ sched_steps = Top.sched0 + 1
    /\ epoch = Top.epoch0 + 1
    /\ CountKind("forward") >= MaxBatches

====
